---- MODULE Spec2Model ----
(***************************************************************************)
(* Model of the Ubiquiti mFi mPower integration for Home Assistant         *)
(* (custom_components/mfi_mpower).                                         *)
(*                                                                         *)
(* Part 1 (MigSpec): identity migration,                                   *)
(*   MPowerDataUpdateCoordinator.async_migrate_old_entity_unique_ids       *)
(*   run over the entity list built by switch.async_create_entities.       *)
(*                                                                         *)
(* Part 2 (CoordSpec): the life of one config entry: create_coordinator,    *)
(*   MPowerDataUpdateCoordinator._async_update_data, the switch entities   *)
(*   and MPowerCoordinatorEntity._handle_coordinator_update.               *)
(*                                                                         *)
(* The host's entity and device registries are modelled by the contract of *)
(* the calls the integration makes on them: lookup by (domain, unique ID), *)
(* rename of an entry's unique ID (rejected with ValueError when the       *)
(* unique ID is already in use in that domain), lookup of a device by      *)
(* identifier and removal of a device.  Entries of other platforms are not *)
(* part of the model, so the platform argument DOMAIN is left implicit.    *)
(***************************************************************************)
EXTENDS Naturals, Integers, Sequences, FiniteSets, TLC

(***************************************************************************)
(* Bounds                                                                  *)
(***************************************************************************)
MaxPorts == 2
MaxEntries == 3
MaxFetches == 3
MaxLabelChanges == 2
MaxRequests == 1
MaxCalls == 2
MaxAttempts == 3

(***************************************************************************)
(* Values                                                                  *)
(***************************************************************************)
None == 0
NoDevice == ""
NoKey == ""

\* api_device.mac and api_device.macs of the (single) device
Mac == "m1"
Macs == [lan |-> "m1", wlan |-> "m2"]

\* switch.DOMAIN
SwitchDomain == "switch"

VARIABLES
    ports,             \* number of ports of the device
    entity_registry,   \* entity id -> [domain, unique_id, device_id]
    device_registry,   \* set of device identifiers that have a device entry
    run,               \* 1 or 2: which run of the migration
    pc,                \* "running", "done" (returned), "raised" (ValueError)
    idx,               \* index of the next entity of the list
    log,               \* calls and log records issued so far
    first_run,         \* registries as they were when the first run ended
    registry0          \* registries as they were before the first run

migVars == <<ports, entity_registry, device_registry, run, pc, idx, log,
             first_run, registry0>>

VARIABLES
    phase,             \* position in the life of the config entry
    instance,          \* number of the coordinator (and device object) in use
    has_data,          \* api_device.has_data
    device_labels,     \* the labels the owner has given the ports, on the device
    api_data,          \* api_device.data: the snapshot in the device object
    coord_data,        \* coordinator.data
    last_update_success, \* coordinator.last_update_success
    inflight,          \* a call of _async_update_data is suspended on the device
    port_data,         \* the data of the API entity (MPowerSwitch) of each port
    pending,           \* listeners still to be called for the current update
    names,             \* device registry: name of the device of each port
    entries,           \* entity registry: entry of each switch entity
    fetches,           \* the fetches made so far, with timeout and outcome
    label_changes,     \* number of label changes made so far
    api_ver,           \* the fetch that api_device.data comes from (0: none)
    coord_ver,         \* the fetch that coordinator.data comes from (0: none)
    port_ver,          \* per port: the fetch the port object's data comes from
    device_locked,     \* per port: the port is locked, on the device
    api_locked,        \* the lock flags of the snapshot in api_device.data
    coord_locked,      \* the lock flags of the snapshot in coordinator.data
    port_locked,       \* per port: api_entity.locked of the port's API entity
    ha_state,          \* per entity: the state last written to the host
    io,                \* direct updates and commands suspended on the device
    requested,         \* a refresh was requested from the coordinator
    ended,             \* the direct update or command that ended last
    io_started         \* number of direct updates and commands started so far

coordVars == <<phase, instance, has_data, device_labels, api_data, coord_data,
               last_update_success, inflight, port_data, pending, names, entries,
               fetches, label_changes, api_ver, coord_ver, port_ver, io, requested,
               ended, io_started, device_locked, api_locked, coord_locked,
               port_locked, ha_state>>

verVars == <<api_ver, coord_ver, port_ver>>

\* Part 4: the config entry, its migration and the config flow
VARIABLES
    config_entries,    \* the config entries of the integration
    outcome,           \* what the last migration or flow step was given and did
    reload_scheduled   \* a reload of the entry was scheduled

entryVars == <<config_entries, outcome, reload_scheduled>>

\* Part 6: the update handlers of concurrent calls of update_device
VARIABLES
    loop_debug,        \* the debug mode of the event loop
    counter,           \* UpdateHandler.counter, shared by all handlers
    handlers,          \* per caller: its call of update_device and its handler
    debug_before       \* the debug mode when the counter last left zero

handlerVars == <<loop_debug, counter, handlers, debug_before>>

vars == <<migVars, coordVars, entryVars, handlerVars>>

(***************************************************************************)
(* Entities of the switch platform                                         *)
(***************************************************************************)
\* switch.async_create_entities: a lock switch per port, then an outlet
\* switch per port
Entities(n) ==
    [i \in 1..(2 * n) |->
        IF i <= n THEN [cls |-> "lock", port |-> i]
                  ELSE [cls |-> "outlet", port |-> i - n]]

\* _attr_translation_key
translation_key(e) == IF e.cls = "lock" THEN "lock" ELSE NoKey

\* MPowerSwitchEntity._domain
domain(e) == SwitchDomain

\* MPowerCoordinatorEntity._create_unique_id (switch entities have an API entity)
_create_unique_id(e, old) ==
    LET base == IF old THEN Macs.lan \o "-" \o Macs.wlan ELSE Mac
    IN  base \o "-" \o ToString(e.port)

_api_unique_id(e) == _create_unique_id(e, FALSE)
_old_unique_id(e) == _create_unique_id(e, TRUE)

unique_id(e) ==
    IF translation_key(e) # NoKey
    THEN _api_unique_id(e) \o "-" \o translation_key(e)
    ELSE _api_unique_id(e)

old_unique_id(e) ==
    IF translation_key(e) # NoKey
    THEN _old_unique_id(e) \o "-" \o translation_key(e)
    ELSE _old_unique_id(e)

\* MPowerCoordinatorEntity._old_unique_ids, overridden by the outlet switch
_old_unique_ids(e) ==
    IF e.cls = "outlet"
    THEN <<_old_unique_id(e) \o "-" \o "switch", _old_unique_id(e) \o "-" \o "outlet">>
    ELSE <<>>

old_unique_ids(e) == <<old_unique_id(e)>> \o _old_unique_ids(e)

old_device_ids(e) == <<_old_unique_id(e)>>

device_id(e) == _api_unique_id(e)

(***************************************************************************)
(* Registry calls                                                          *)
(***************************************************************************)
\* entity_registry.async_get_entity_id(domain, DOMAIN, unique_id)
async_get_entity_id(reg, dom, uid) ==
    LET found == {id \in DOMAIN reg : reg[id].domain = dom /\ reg[id].unique_id = uid}
    IN  IF found = {} THEN None ELSE CHOOSE id \in found : TRUE

\* entity_registry.async_update_entity(entity_id, new_unique_id=...):
\* ValueError when the unique ID is in use by an entry of the entry's domain
async_update_entity(reg, entity_id, new_unique_id) ==
    LET conflict == async_get_entity_id(reg, reg[entity_id].domain, new_unique_id)
    IN  IF conflict # None
        THEN [reg |-> reg, raised |-> TRUE]
        ELSE [reg |-> [reg EXCEPT ![entity_id].unique_id = new_unique_id],
              raised |-> FALSE]

\* device_registry.async_get_device(identifiers={(DOMAIN, id)})
async_get_device(devs, id) == IF id \in devs THEN id ELSE NoDevice

\* device_registry.async_remove_device(device.id)
async_remove_device(devs, id) == devs \ {id}

\* entries that reference a device
ReferencedBy(reg, dev) == {id \in DOMAIN reg : reg[id].device_id = dev}

(***************************************************************************)
(* async_migrate_old_entity_unique_ids                                     *)
(***************************************************************************)
\* MigrateOldUniqueId without the test of entity_id: an old entry is renamed
\* although an entry exists under the current unique ID
MigrateOldUniqueId_NoCheck(i, e, entity_id, old_uid, st) ==
    LET old_entity_id == async_get_entity_id(st.reg, domain(e), old_uid)
        upd == async_update_entity(st.reg, old_entity_id, e.unique_id)
    IN  IF old_entity_id = None THEN st
        ELSE [st EXCEPT
                !.reg = upd.reg,
                !.raised = upd.raised,
                !.log = Append(@,
                    [op |-> "update_entity", run |-> run, entity |-> i,
                     entity_id |-> old_entity_id,
                     new_unique_id |-> e.unique_id,
                     old_unique_id |-> old_uid,
                     holder |-> async_get_entity_id(
                         st.reg, st.reg[old_entity_id].domain, e.unique_id)])]

\* MigrateOldUniqueId with the test of entity_id inverted: the rename is made
\* when the current unique ID has an entry, the conflict logged when not
MigrateOldUniqueId_Inverted(i, e, entity_id, old_uid, st) ==
    LET old_entity_id == async_get_entity_id(st.reg, domain(e), old_uid)
        upd == async_update_entity(st.reg, old_entity_id, e.unique_id)
    IN  IF old_entity_id = None THEN st
        ELSE IF entity_id = None
        THEN [st EXCEPT !.log = Append(@,
                [op |-> "error", run |-> run, entity |-> i,
                 unique_id |-> e.unique_id, old_unique_id |-> old_uid])]
        ELSE [st EXCEPT
                !.reg = upd.reg,
                !.raised = upd.raised,
                !.log = Append(@,
                    [op |-> "update_entity", run |-> run, entity |-> i,
                     entity_id |-> old_entity_id,
                     new_unique_id |-> e.unique_id,
                     old_unique_id |-> old_uid,
                     holder |-> async_get_entity_id(
                         st.reg, st.reg[old_entity_id].domain, e.unique_id)])]

\* the body of the loop over entity.old_unique_ids for one old unique ID;
\* entity_id is the result of the lookup made before the loop
MigrateOldUniqueId(i, e, entity_id, old_uid, st) ==
    LET old_entity_id == async_get_entity_id(st.reg, domain(e), old_uid)
        upd == async_update_entity(st.reg, old_entity_id, e.unique_id)
    IN  IF old_entity_id = None THEN st
        ELSE IF entity_id # None
        THEN [st EXCEPT !.log = Append(@,
                [op |-> "error", run |-> run, entity |-> i,
                 unique_id |-> e.unique_id, old_unique_id |-> old_uid])]
        ELSE [st EXCEPT
                !.reg = upd.reg,
                !.raised = upd.raised,
                !.log = Append(@,
                    [op |-> "update_entity", run |-> run, entity |-> i,
                     entity_id |-> old_entity_id,
                     new_unique_id |-> e.unique_id,
                     old_unique_id |-> old_uid,
                     holder |-> async_get_entity_id(
                         st.reg, st.reg[old_entity_id].domain, e.unique_id)])]

RECURSIVE MigrateOldUniqueIds(_, _, _, _, _)
\* the loop over entity.old_unique_ids; an exception ends it
MigrateOldUniqueIds(i, e, entity_id, ids, st) ==
    IF ids = <<>> \/ st.raised THEN st
    ELSE MigrateOldUniqueIds(i, e, entity_id, Tail(ids),
                             MigrateOldUniqueId(i, e, entity_id, Head(ids), st))

\* the body of the loop over entity.old_device_ids for one old device ID
RemoveOldDevice(i, old_device_id, st) ==
    LET old_device == async_get_device(st.devs, old_device_id)
    IN  IF old_device = NoDevice THEN st
        ELSE [st EXCEPT
                !.devs = async_remove_device(@, old_device),
                !.log = Append(@,
                    [op |-> "remove_device", run |-> run, entity |-> i,
                     device |-> old_device,
                     referenced_by |-> ReferencedBy(st.reg, old_device)])]

RECURSIVE RemoveOldDevices(_, _, _)
\* the loop over entity.old_device_ids, not reached after an exception
RemoveOldDevices(i, ids, st) ==
    IF ids = <<>> \/ st.raised THEN st
    ELSE RemoveOldDevices(i, Tail(ids), RemoveOldDevice(i, Head(ids), st))

\* one iteration of the loop over the entities
MigrateOne(i, e, reg, devs, lg) ==
    LET entity_id == async_get_entity_id(reg, domain(e), e.unique_id)
        st0 == [reg |-> reg, devs |-> devs, log |-> lg, raised |-> FALSE]
        st1 == MigrateOldUniqueIds(i, e, entity_id, e.old_unique_ids, st0)
    IN  RemoveOldDevices(i, e.old_device_ids, st1)

(***************************************************************************)
(* Initial registries                                                      *)
(***************************************************************************)
\* the entity list of a device with MaxPorts ports, with every identifier
\* of each entity computed once
EntityTable ==
    [i \in 1..(2 * MaxPorts) |->
        LET e == Entities(MaxPorts)[i]
        IN  [cls |-> e.cls, port |-> e.port,
             unique_id |-> unique_id(e),
             old_unique_ids |-> old_unique_ids(e),
             old_device_ids |-> old_device_ids(e)]]

\* the entity list of a device with n ports, as indices of EntityTable
EntityList(n) ==
    [i \in 1..(2 * n) |-> IF i <= n THEN i ELSE MaxPorts + (i - n)]

RECURSIVE Flatten(_)
Flatten(ss) == IF ss = <<>> THEN <<>> ELSE Head(ss) \o Flatten(Tail(ss))

\* the entries an initial registry may hold: one per current and historical
\* unique ID of every switch entity, and one entry of another domain that
\* carries the unique ID of the outlet of port 1
EntryUniverse ==
    Flatten([i \in 1..(2 * MaxPorts) |->
        [k \in 1..(1 + Len(EntityTable[i].old_unique_ids)) |->
            [domain |-> SwitchDomain,
             port |-> EntityTable[i].port,
             unique_id |-> IF k = 1 THEN EntityTable[i].unique_id
                           ELSE EntityTable[i].old_unique_ids[k - 1]]]])
    \o <<[domain |-> "sensor", port |-> 1, unique_id |-> EntityTable[MaxPorts + 1].unique_id]>>

\* the device of a port under the historical scheme
OldDevice == [p \in 1..MaxPorts |-> EntityTable[p].old_device_ids[1]]

\* the device entry async_setup_entry creates before it forwards the entry
\* to the platforms: identifiers={(DOMAIN, api_device.mac)}
HubDevice == Mac

\* no direct update or command has ended yet
NoIo == [kind |-> "", result |-> "", requests |-> 0]

\* no migration or flow step has run yet
NoOutcome == [op |-> "", version |-> <<0, 0>>, submitted |-> FALSE, device |-> "",
              has_data |-> FALSE, type |-> "", error |-> ""]

\* the config entry of Parts 1 to 3 is not looked at
EntryIdle ==
    /\ config_entries = {}
    /\ outcome = NoOutcome
    /\ reload_scheduled = FALSE

\* no call of update_device is looked at
HandlerIdle ==
    /\ loop_debug = FALSE
    /\ counter = 0
    /\ handlers = <<>>
    /\ debug_before = FALSE

\* the coordinator before create_coordinator has run
CoordIdle ==
    /\ phase = "create"
    /\ instance = 1
    /\ has_data = FALSE
    /\ api_data = <<>>
    /\ coord_data = <<>>
    /\ last_update_success = TRUE
    /\ inflight = FALSE
    /\ port_data = <<>>
    /\ pending = <<>>
    /\ names = <<>>
    /\ entries = <<>>
    /\ fetches = <<>>
    /\ api_locked = <<>>
    /\ coord_locked = <<>>
    /\ port_locked = <<>>
    /\ ha_state = <<>>
    /\ label_changes = 0
    /\ api_ver = 0
    /\ coord_ver = 0
    /\ port_ver = <<>>
    /\ io = {}
    /\ requested = FALSE
    /\ ended = NoIo
    /\ io_started = 0

MigInit ==
    /\ CoordIdle
    /\ EntryIdle
    /\ HandlerIdle
    /\ device_labels = <<>>
    /\ device_locked = <<>>
    /\ ports \in 1..MaxPorts
    /\ \E D \in SUBSET {OldDevice[p] : p \in 1..ports} :
          device_registry = D \cup {HubDevice}
    /\ \E S \in SUBSET {u \in 1..Len(EntryUniverse) : EntryUniverse[u].port <= ports} :
          /\ Cardinality(S) <= MaxEntries
          /\ \E Q \in SUBSET {p \in 1..ports : OldDevice[p] \in device_registry /\
                                   \E id \in S : EntryUniverse[id].port = p} :
                entity_registry =
                    [id \in S |->
                        [domain |-> EntryUniverse[id].domain,
                         unique_id |-> EntryUniverse[id].unique_id,
                         device_id |-> IF EntryUniverse[id].port \in Q
                                       THEN OldDevice[EntryUniverse[id].port]
                                       ELSE NoDevice]]
    /\ run = 1
    /\ pc = "running"
    /\ idx = 1
    /\ log = <<>>
    /\ first_run = [reg |-> <<>>, devs |-> {}]
    /\ registry0 = [reg |-> entity_registry, devs |-> device_registry]

(***************************************************************************)
(* Actions                                                                 *)
(***************************************************************************)
\* one iteration of "for entity in entities"; a ValueError raised by
\* async_update_entity is not caught and leaves
\* async_migrate_old_entity_unique_ids
MigrateEntity ==
    /\ pc = "running"
    /\ idx <= 2 * ports
    /\ LET r == MigrateOne(idx, EntityTable[EntityList(ports)[idx]],
                           entity_registry, device_registry, log)
       IN  /\ entity_registry' = r.reg
           /\ device_registry' = r.devs
           /\ log' = r.log
           /\ pc' = IF r.raised THEN "raised" ELSE "running"
           /\ idx' = IF r.raised THEN idx ELSE idx + 1
    /\ UNCHANGED <<ports, run, first_run, registry0>>

\* the loop over the entities is exhausted
MigrateReturn ==
    /\ pc = "running"
    /\ idx > 2 * ports
    /\ pc' = "done"
    /\ UNCHANGED <<ports, entity_registry, device_registry, run, idx, log, first_run,
                   registry0>>

\* the platform is set up again with nothing changed in between
MigrateAgain ==
    /\ pc \in {"done", "raised"}
    /\ run = 1
    /\ run' = 2
    /\ pc' = "running"
    /\ idx' = 1
    /\ first_run' = [reg |-> entity_registry, devs |-> device_registry]
    /\ UNCHANGED <<ports, entity_registry, device_registry, log, registry0>>

MigNext ==
    \/ MigrateEntity /\ UNCHANGED <<coordVars, entryVars, handlerVars>>
    \/ MigrateReturn /\ UNCHANGED <<coordVars, entryVars, handlerVars>>
    \/ MigrateAgain /\ UNCHANGED <<coordVars, entryVars, handlerVars>>

MigSpec == MigInit /\ [][MigNext]_vars

(***************************************************************************)
(* Part 2: coordinator and switch entities                                 *)
(***************************************************************************)
\* the number of ports of the device, which create_switches reports
NumPorts == 2

\* const.DEFAULT_TIMEOUT and homeassistant's SLOW_SETUP_MAX_WAIT, in seconds
DEFAULT_TIMEOUT == 15
SLOW_SETUP_MAX_WAIT == 60
\* update_device called without async_timeout
NoTimeout == 0

\* api_device.data and coordinator.data before the first successful fetch
NoData == <<>>

\* port labels: none, or a label whose slug differs from it
NoLabel == ""
Labels == {NoLabel, "Router"}
\* port data that MPowerEntity.update rejects with MPowerDataError
BadData == "?"

\* api_device.host
Host == "10.0.0.5"

\* the switch entities of the device, in the order of async_create_entities
SwitchEntities == Entities(NumPorts)
AllListeners == [i \in 1..(2 * NumPorts) |-> i]

\* the translated name of the entity (has_entity_name): the lock switch is
\* named, the outlet switch has _attr_name = None
NoName == ""
name(e) == IF e.cls = "lock" THEN "Lock" ELSE NoName

\* MPowerCoordinatorEntity.port_name
port_name(e) == "Port " \o ToString(e.port)

\* MPowerCoordinatorEntity.device_name for an entity with an API entity
device_name(e, label) == IF label # NoLabel THEN label ELSE port_name(e)

\* homeassistant.util.slugify on one word: lower case, every character
\* that is no letter or digit becomes "_"
SlugWord(w) ==
    CASE w = "Router" -> "router"
      [] w = "Lock" -> "lock"
      [] w = "Port" -> "port"
      [] w = Host -> "10_0_0_5"
      [] OTHER -> w

RECURSIVE slugify(_)
\* slugify of the words joined by blanks
slugify(words) ==
    IF Len(words) = 1 THEN SlugWord(words[1])
    ELSE SlugWord(words[1]) \o "_" \o slugify(Tail(words))

\* the words of "Port N" or of the label
PortWords(e, label, port_word) ==
    IF label # NoLabel THEN <<label>> ELSE <<port_word, ToString(e.port)>>

NameWords(e) == IF name(e) # NoName THEN <<name(e)>> ELSE <<>>

\* _handle_coordinator_update: host, then label or "port N", then the name
new_entity_id(e, label) == slugify(<<Host>> \o PortWords(e, label, "port") \o NameWords(e))

\* the object ID the host suggests when the entity is added: device name,
\* then entity name
suggested_object_id(e, label) == slugify(PortWords(e, label, "Port") \o NameWords(e))

\* the entity registry has no entry with this object ID (all entries are of
\* the switch domain)
entity_id_available(reg, obj) == \A i \in DOMAIN reg : reg[i].object_id # obj

RECURSIVE GenerateFrom(_, _, _)
GenerateFrom(reg, base, k) ==
    LET cand == IF k = 1 THEN base ELSE base \o "_" \o ToString(k)
    IN  IF entity_id_available(reg, cand) THEN cand ELSE GenerateFrom(reg, base, k + 1)

\* entity_registry.async_generate_entity_id(domain, suggested): the slug of
\* the suggestion, with the first free suffix _2, _3, ...
async_generate_entity_id(reg, base) == GenerateFrom(reg, base, 1)

\* the entity ID is written without looking at the registry
AdjustEntityId_NoCheck(reg, i, new) ==
    IF new = reg[i].object_id THEN reg
    ELSE [reg EXCEPT ![i].object_id = new]

\* lines 348-371: adjust the entity ID; on ValueError (the ID is registered
\* already) an ID is generated from the full ID "switch.<new>", whose slug
\* is "switch_<new>"
AdjustEntityId(reg, i, new) ==
    IF new = reg[i].object_id THEN reg
    ELSE IF entity_id_available(reg, new)
    THEN [reg EXCEPT ![i].object_id = new]
    ELSE [reg EXCEPT ![i].object_id =
             async_generate_entity_id(reg, SwitchDomain \o "_" \o new)]

\* lines 311-328: the device name is read from device_info after the API
\* entity was updated, and written to the device registry when it differs
\* from device_name
AdjustDeviceName(nms, e, label) ==
    LET old_device_name == device_name(e, label)
        new_device_name == device_name(e, label)
    IN  IF new_device_name # old_device_name
        THEN [nms EXCEPT ![e.port] = new_device_name]
        ELSE nms

\* what makes update_device fail inside _async_update_data: the timeout
\* expires, or refresh raises MPowerAuthenticationError,
\* MPowerConnectionError or MPowerDataError
Causes == {"timeout", "auth", "connection", "data"}

\* every failure surfaces as UpdateFailed
Signal_AllUpdateFailed(cause) == "UpdateFailed"

\* every failure but the authentication error surfaces as UpdateFailed
Signal_TimeoutWrapped(cause) ==
    IF cause = "auth" THEN "ConfigEntryAuthFailed" ELSE "UpdateFailed"

\* _async_update_data, lines 68-73: the exception the update ends with
Signal(cause) ==
    CASE cause = "timeout" -> "TimeoutError"
      [] cause = "auth" -> "ConfigEntryAuthFailed"
      [] OTHER -> "UpdateFailed"

\* the standard timeout for every refresh
Timeout_AlwaysDefault(hd) == DEFAULT_TIMEOUT

\* _async_update_data, line 65
Timeout(hd) == IF hd THEN DEFAULT_TIMEOUT ELSE SLOW_SETUP_MAX_WAIT

\* what a successful MPowerDevice.refresh reads: the labels of the ports,
\* with the data of at most one port malformed
\* no port is locked
Unlocked == [p \in 1..NumPorts |-> FALSE]

\* the outlet is available whenever the coordinator is
available_IgnoresLock(e, locked, coordinator_available) == coordinator_available

\* CoordinatorEntity.available is coordinator.last_update_success;
\* MPowerOutletSwitchEntity.available is False when the port is locked
available(e, locked, coordinator_available) ==
    IF e.cls = "outlet" /\ locked THEN FALSE ELSE coordinator_available

\* the state that async_write_ha_state writes: unavailable, or is_on, which
\* is the lock flag for the lock switch and the output of the port (whose
\* value is not distinguished) for the outlet switch
State(e, locked, coordinator_available) ==
    IF ~available(e, locked, coordinator_available) THEN "unavailable"
    ELSE IF e.cls = "lock" THEN (IF locked THEN "on" ELSE "off")
    ELSE "output"

Snapshots ==
    {device_labels} \cup
    {[device_labels EXCEPT ![p] = BadData] : p \in 1..NumPorts}

RECURSIVE AddEntries(_, _, _)
\* the host registers the entities in list order, each under a generated
\* entity ID and under its unique ID
AddEntries(reg, i, data) ==
    IF i > 2 * NumPorts THEN reg
    ELSE LET e == SwitchEntities[i]
             entry == [object_id |-> async_generate_entity_id(
                           reg, suggested_object_id(e, data[e.port])),
                       unique_id |-> unique_id(e)]
         IN  AddEntries(reg @@ (i :> entry), i + 1, data)

CoordInit ==
    /\ CoordIdle
    /\ EntryIdle
    /\ HandlerIdle
    /\ device_labels \in [1..NumPorts -> Labels]
    /\ device_locked = Unlocked
    /\ ports = 1
    /\ entity_registry = <<>>
    /\ device_registry = {}
    /\ run = 1
    /\ pc = "done"
    /\ idx = 1
    /\ log = <<>>
    /\ first_run = [reg |-> <<>>, devs |-> {}]
    /\ registry0 = [reg |-> <<>>, devs |-> {}]

\* the failure of the initial fetch ends the setup
InitialFetch_Propagates ==
    /\ phase = "create"
    /\ Len(fetches) < MaxFetches
    /\ \/ \E snap \in Snapshots :
             /\ api_data' = snap
             /\ api_locked' = device_locked
             /\ api_ver' = Len(fetches) + 1
             /\ has_data' = TRUE
             /\ phase' = "platforms"
             /\ fetches' = Append(fetches,
                    [instance |-> instance, kind |-> "initial",
                     timeout |-> NoTimeout, cause |-> "", result |-> "ok"])
       \/ \E cause \in Causes \ {"timeout"} :
             /\ api_data' = NoData
             /\ api_locked' = <<>>
             /\ api_ver' = 0
             /\ has_data' = FALSE
             /\ phase' = "not_ready"
             /\ fetches' = Append(fetches,
                    [instance |-> instance, kind |-> "initial",
                     timeout |-> NoTimeout, cause |-> cause, result |-> Signal(cause)])
    /\ UNCHANGED <<instance, device_labels, device_locked, coord_data, coord_locked, last_update_success, inflight,
                   port_data, port_locked, pending, names, entries, ha_state, label_changes, coord_ver,
                   port_ver, io, requested, ended,
                   io_started>>

\* create_coordinator, lines 134-149: a new device object, the initial fetch
\* (update_device without timeout), whose failure is ignored
InitialFetch ==
    /\ phase = "create"
    /\ Len(fetches) < MaxFetches
    /\ \/ \E snap \in Snapshots :
             /\ api_data' = snap
             /\ api_locked' = device_locked
             /\ api_ver' = Len(fetches) + 1
             /\ has_data' = TRUE
             /\ phase' = "platforms"
             /\ fetches' = Append(fetches,
                    [instance |-> instance, kind |-> "initial",
                     timeout |-> NoTimeout, cause |-> "", result |-> "ok"])
       \/ \E cause \in Causes \ {"timeout"} :
             /\ api_data' = NoData
             /\ api_locked' = <<>>
             /\ api_ver' = 0
             /\ has_data' = FALSE
             /\ phase' = "first_refresh"
             /\ fetches' = Append(fetches,
                    [instance |-> instance, kind |-> "initial",
                     timeout |-> NoTimeout, cause |-> cause, result |-> "ignored"])
    /\ UNCHANGED <<instance, device_labels, device_locked, coord_data, coord_locked, last_update_success, inflight,
                   port_data, port_locked, pending, names, entries, ha_state, label_changes, coord_ver,
                   port_ver, io, requested, ended,
                   io_started>>

\* _async_update_data up to the await of update_device, called by
\* async_config_entry_first_refresh or by the coordinator's timer
RefreshStart ==
    /\ phase \in {"first_refresh", "running"}
    /\ ~inflight
    /\ pending = <<>>
    /\ Len(fetches) < MaxFetches
    /\ inflight' = TRUE
    /\ requested' = FALSE
    /\ fetches' = Append(fetches,
           [instance |-> instance, kind |-> "refresh",
            timeout |-> Timeout(has_data), cause |-> "", result |-> "pending"])
    /\ UNCHANGED <<phase, instance, has_data, device_labels, device_locked, api_data, api_locked, coord_data, coord_locked,
                   last_update_success, port_data, port_locked, pending, names, entries, ha_state,
                   label_changes, verVars, io, ended,
                   io_started>>

\* update_device returned: the coordinator stores api_device.data and calls
\* its listeners
RefreshSucceeds ==
    /\ inflight
    /\ \E snap \in Snapshots :
          /\ api_data' = snap
          /\ coord_data' = snap
    /\ api_locked' = device_locked
    /\ coord_locked' = device_locked
    /\ api_ver' = Len(fetches)
    /\ coord_ver' = Len(fetches)
    /\ has_data' = TRUE
    /\ last_update_success' = TRUE
    /\ inflight' = FALSE
    /\ fetches' = [fetches EXCEPT ![Len(fetches)].result = "ok"]
    /\ phase' = IF phase = "first_refresh" THEN "platforms" ELSE phase
    /\ pending' = IF phase = "running" THEN AllListeners ELSE <<>>
    /\ UNCHANGED <<instance, device_labels, device_locked, port_data, port_locked, names, entries, ha_state, label_changes,
                   port_ver, io, requested, ended,
                   io_started>>

\* update_device raised or the timeout expired: the first refresh makes the
\* setup fail (to be retried, or after an authentication error to wait for
\* reauthentication), a later one marks the update as failed and calls the
\* listeners if the previous update had succeeded
RefreshFails ==
    /\ inflight
    /\ \E cause \in Causes :
          /\ fetches' = [fetches EXCEPT ![Len(fetches)].cause = cause,
                                        ![Len(fetches)].result = Signal(cause)]
          /\ phase' = IF phase = "first_refresh"
                      THEN IF Signal(cause) = "ConfigEntryAuthFailed"
                           THEN "auth_failed" ELSE "not_ready"
                      ELSE phase
    /\ inflight' = FALSE
    /\ last_update_success' = FALSE
    /\ pending' = IF phase = "running" /\ last_update_success THEN AllListeners ELSE <<>>
    /\ UNCHANGED <<instance, has_data, device_labels, device_locked, api_data, api_locked, coord_data, coord_locked, port_data, port_locked,
                   names, entries, ha_state, label_changes, verVars, io, requested, ended,
                   io_started>>

\* the host sets the entry up again: async_setup_entry, create_coordinator
SetupRetry ==
    /\ phase = "not_ready"
    /\ phase' = "create"
    /\ instance' = instance + 1
    /\ has_data' = FALSE
    /\ api_data' = NoData
    /\ coord_data' = NoData
    /\ api_locked' = <<>>
    /\ coord_locked' = <<>>
    /\ last_update_success' = TRUE
    /\ api_ver' = 0
    /\ coord_ver' = 0
    /\ UNCHANGED <<device_labels, device_locked, inflight, port_data, port_locked, pending, names, entries, ha_state, fetches,
                   label_changes, port_ver, io, requested, ended,
                   io_started>>

\* switch.async_setup_entry: create_switches, the entities, and the host
\* adding them to the registries; malformed port data makes create_switches
\* raise (PlatformNotReady); on a fresh installation the registries hold no
\* entry of the device, so the migration of Part 1 has nothing to do
SetupPlatform ==
    /\ phase = "platforms"
    /\ IF \E p \in 1..NumPorts : api_data[p] = BadData
       THEN /\ phase' = "platform_not_ready"
            /\ UNCHANGED <<port_data, port_locked, port_ver, names, entries, ha_state>>
       ELSE /\ phase' = "running"
            /\ port_data' = api_data
            /\ port_ver' = [p \in 1..NumPorts |-> api_ver]
            /\ names' = [p \in 1..NumPorts |-> device_name(SwitchEntities[p], api_data[p])]
            /\ entries' = AddEntries(<<>>, 1, api_data)
            /\ port_locked' = api_locked
            /\ ha_state' = [i \in 1..(2 * NumPorts) |->
                   State(SwitchEntities[i], api_locked[SwitchEntities[i].port],
                         last_update_success)]
    /\ UNCHANGED <<instance, has_data, device_labels, device_locked, api_data, api_locked, coord_data, coord_locked,
                   last_update_success, inflight, pending, fetches, label_changes,
                   api_ver, coord_ver, io, requested, ended,
                   io_started>>

\* an entity whose port data is malformed is written as unavailable
HandleCoordinatorUpdate_MarksUnavailable ==
    /\ pending # <<>>
    /\ pending' = Tail(pending)
    /\ LET i == Head(pending)
           e == SwitchEntities[i]
           data == coord_data
       IN  IF data = NoData
           THEN UNCHANGED <<port_data, port_locked, port_ver, names, entries, ha_state>>
           ELSE IF data[e.port] = BadData
           THEN /\ ha_state' = [ha_state EXCEPT ![i] = "unavailable"]
                /\ UNCHANGED <<port_data, port_locked, port_ver, names, entries>>
           ELSE /\ port_data' = [port_data EXCEPT ![e.port] = data[e.port]]
                /\ port_ver' = [port_ver EXCEPT ![e.port] = coord_ver]
                /\ names' = AdjustDeviceName(names, e, data[e.port])
                /\ entries' = AdjustEntityId(entries, i, new_entity_id(e, data[e.port]))
                /\ port_locked' = [port_locked EXCEPT ![e.port] = coord_locked[e.port]]
                /\ ha_state' = [ha_state EXCEPT ![i] =
                       State(e, coord_locked[e.port], last_update_success)]
    /\ UNCHANGED <<phase, instance, has_data, device_labels, device_locked, api_data, api_locked, coord_data, coord_locked,
                   last_update_success, inflight, fetches, label_changes, api_ver,
                   coord_ver, io, requested, ended,
                   io_started>>

\* MPowerCoordinatorEntity._handle_coordinator_update of the next listener
HandleCoordinatorUpdate ==
    /\ pending # <<>>
    /\ pending' = Tail(pending)
    /\ LET i == Head(pending)
           e == SwitchEntities[i]
           data == coord_data
       IN  IF data = NoData
           THEN UNCHANGED <<port_data, port_locked, port_ver, names, entries, ha_state>>
           ELSE IF data[e.port] = BadData
           THEN UNCHANGED <<port_data, port_locked, port_ver, names, entries, ha_state>>
           ELSE /\ port_data' = [port_data EXCEPT ![e.port] = data[e.port]]
                /\ port_ver' = [port_ver EXCEPT ![e.port] = coord_ver]
                /\ names' = AdjustDeviceName(names, e, data[e.port])
                /\ entries' = AdjustEntityId(entries, i, new_entity_id(e, data[e.port]))
                /\ port_locked' = [port_locked EXCEPT ![e.port] = coord_locked[e.port]]
                /\ ha_state' = [ha_state EXCEPT ![i] =
                       State(e, coord_locked[e.port], last_update_success)]
    /\ UNCHANGED <<phase, instance, has_data, device_labels, device_locked, api_data, api_locked, coord_data, coord_locked,
                   last_update_success, inflight, fetches, label_changes, api_ver,
                   coord_ver, io, requested, ended,
                   io_started>>

\* the owner gives a port another label on the device; only a fetch reads
\* the label, so the change is taken between one refresh and the next
LabelChange ==
    /\ label_changes < MaxLabelChanges
    /\ phase = "running"
    /\ ~inflight
    /\ pending = <<>>
    /\ \E p \in 1..NumPorts, l \in Labels :
          /\ l # device_labels[p]
          /\ device_labels' = [device_labels EXCEPT ![p] = l]
    /\ label_changes' = label_changes + 1
    /\ UNCHANGED <<device_locked, phase, instance, has_data, api_data, api_locked, coord_data, coord_locked, last_update_success,
                   inflight, port_data, port_locked, pending, names, entries, ha_state, fetches, verVars, io,
                   requested, ended,
                   io_started>>

\* the version of data that an entity fetched from the device by itself
DirectVersion == 0 - 1

\* the direct updates or the commands that are suspended on the device
Suspended(kind) == {r \in io : r.kind = kind}

\* MPowerCoordinatorEntity.async_update up to the await: the entity updates
\* its port object directly via the API, whatever the coordinator is doing;
\* the host runs one update per entity at a time
AsyncUpdateStart ==
    /\ phase = "running"
    /\ pending = <<>>
    /\ io_started < MaxRequests
    /\ io_started' = io_started + 1
    /\ \E i \in DOMAIN entries :
          /\ \A r \in Suspended("update") : r.entity # i
          /\ io' = io \cup {[kind |-> "update", entity |-> i, timeout |-> NoTimeout,
                             refresh |-> FALSE]}
    /\ UNCHANGED <<phase, instance, has_data, device_labels, device_locked, api_data, api_locked, coord_data, coord_locked,
                   last_update_success, inflight, port_data, port_locked, pending, names, entries, ha_state,
                   fetches, label_changes, verVars, requested, ended>>

\* async_update after the await: the port object holds what the device
\* reports now, or the exception of the API goes to the host
AsyncUpdateEnd ==
    /\ pending = <<>>
    /\ \E r \in Suspended("update"), result \in {"ok", "failed"} :
          LET q == SwitchEntities[r.entity].port
          IN  /\ io' = io \ {r}
              /\ ended' = [kind |-> r.kind, result |-> result, requests |-> 0]
              /\ IF result = "ok"
                 THEN /\ port_data' = [port_data EXCEPT ![q] = device_labels[q]]
                      /\ port_locked' = [port_locked EXCEPT ![q] = device_locked[q]]
                      /\ port_ver' = [port_ver EXCEPT ![q] = DirectVersion]
                      /\ ha_state' = [ha_state EXCEPT ![r.entity] =
                             State(SwitchEntities[r.entity], device_locked[q],
                                   last_update_success)]
                 ELSE UNCHANGED <<port_data, port_locked, port_ver, ha_state>>
    /\ UNCHANGED <<phase, instance, has_data, device_labels, device_locked, api_data,
                   api_locked, coord_data, coord_locked, last_update_success, inflight,
                   pending, names, entries, fetches, label_changes, api_ver, coord_ver,
                   requested, io_started>>

\* the refresh flag that the commands pass to the mutator of the API
MutatorRefresh_Default == TRUE

\* switch.py and select.py: lock, unlock, turn_on, turn_off and set_led are
\* called with refresh=False
MutatorRefresh == FALSE

\* a refresh is requested whatever the mutator did
Requested_Always(result) == 1

\* async_turn_on and the like: async_request_refresh is the statement after
\* the awaited mutator, so it is reached once when the mutator returns and
\* not at all when it raises
Requested(result) == IF result = "ok" THEN 1 ELSE 0

\* a command of the user up to the await of the mutator (the relay state of
\* the device is not part of the state); one command per entity is
\* suspended at a time
CommandStart ==
    /\ phase = "running"
    /\ pending = <<>>
    /\ io_started < MaxRequests
    /\ io_started' = io_started + 1
    /\ \E i \in DOMAIN entries :
          /\ \A r \in Suspended("command") : r.entity # i
          /\ io' = io \cup {[kind |-> "command", entity |-> i, timeout |-> NoTimeout,
                             refresh |-> MutatorRefresh]}
    /\ UNCHANGED <<phase, instance, has_data, device_labels, device_locked, api_data,
                   api_locked, coord_data, coord_locked, last_update_success, inflight,
                   port_data, port_locked, pending, names, entries, ha_state, fetches,
                   label_changes, verVars, requested, ended>>

\* the mutator returned or raised; the lock switch was turned on (lock) or
\* off (unlock) and a mutator that returns has set the lock of the port on
\* the device, a mutator that raises has not; a mutator that refreshes by
\* itself fetches the port data before it returns
CommandEnd ==
    /\ pending = <<>>
    /\ \E r \in Suspended("command"), result \in {"ok", "failed"}, on \in BOOLEAN :
          LET q == SwitchEntities[r.entity].port
          IN  /\ io' = io \ {r}
              /\ ended' = [kind |-> r.kind, result |-> result,
                           requests |-> Requested(result)]
              /\ requested' = (requested \/ Requested(result) > 0)
              /\ device_locked' =
                    IF result = "ok" /\ SwitchEntities[r.entity].cls = "lock"
                    THEN [device_locked EXCEPT ![q] = on]
                    ELSE device_locked
              /\ IF result = "ok" /\ r.refresh
                 THEN /\ port_data' = [port_data EXCEPT ![q] = device_labels[q]]
                      /\ port_locked' = [port_locked EXCEPT ![q] = device_locked'[q]]
                      /\ port_ver' = [port_ver EXCEPT ![q] = DirectVersion]
                 ELSE UNCHANGED <<port_data, port_locked, port_ver>>
    /\ UNCHANGED <<phase, instance, has_data, device_labels, api_data, api_locked,
                   coord_data, coord_locked, last_update_success, inflight, pending,
                   names, entries, ha_state, fetches, label_changes, api_ver, coord_ver,
                   io_started>>

CoordNext ==
    \/ InitialFetch /\ UNCHANGED <<migVars, entryVars, handlerVars>>
    \/ RefreshStart /\ UNCHANGED <<migVars, entryVars, handlerVars>>
    \/ RefreshSucceeds /\ UNCHANGED <<migVars, entryVars, handlerVars>>
    \/ RefreshFails /\ UNCHANGED <<migVars, entryVars, handlerVars>>
    \/ SetupRetry /\ UNCHANGED <<migVars, entryVars, handlerVars>>
    \/ SetupPlatform /\ UNCHANGED <<migVars, entryVars, handlerVars>>
    \/ HandleCoordinatorUpdate /\ UNCHANGED <<migVars, entryVars, handlerVars>>
    \/ LabelChange /\ UNCHANGED <<migVars, entryVars, handlerVars>>

CoordSpec == CoordInit /\ [][CoordNext]_vars

(***************************************************************************)
(* Part 3: an entry in operation, with direct updates and commands of its  *)
(* entities next to the refreshes of the coordinator                       *)
(***************************************************************************)
\* the entry after create_coordinator fetched the data of a device whose
\* ports had no label and were unlocked, and the platform was set up; the
\* owner may have given labels to ports since
IoInit ==
    /\ EntryIdle
    /\ HandlerIdle
    /\ device_labels \in [1..NumPorts -> Labels]
    /\ \E data \in {[p \in 1..NumPorts |-> NoLabel]} :
          /\ api_data = data
          /\ port_data = data
          /\ names = [p \in 1..NumPorts |-> device_name(SwitchEntities[p], data[p])]
          /\ entries = AddEntries(<<>>, 1, data)
    /\ device_locked = Unlocked
    /\ api_locked = Unlocked
    /\ coord_locked = <<>>
    /\ port_locked = Unlocked
    /\ ha_state = [i \in 1..(2 * NumPorts) |-> State(SwitchEntities[i], FALSE, TRUE)]
    /\ phase = "running"
    /\ instance = 1
    /\ has_data = TRUE
    /\ coord_data = NoData
    /\ last_update_success = TRUE
    /\ inflight = FALSE
    /\ pending = <<>>
    /\ fetches = <<[instance |-> 1, kind |-> "initial", timeout |-> NoTimeout,
                    cause |-> "", result |-> "ok"]>>
    /\ label_changes = 0
    /\ api_ver = 1
    /\ coord_ver = 0
    /\ port_ver = [p \in 1..NumPorts |-> 1]
    /\ io = {}
    /\ requested = FALSE
    /\ ended = NoIo
    /\ io_started = 0
    /\ ports = 1
    /\ entity_registry = <<>>
    /\ device_registry = {}
    /\ run = 1
    /\ pc = "done"
    /\ idx = 1
    /\ log = <<>>
    /\ first_run = [reg |-> <<>>, devs |-> {}]
    /\ registry0 = [reg |-> <<>>, devs |-> {}]

\* async_unload_entry: the host unloads the platforms, which removes the
\* entities and with the last listener the scheduled refresh of the
\* coordinator, and the coordinator is dropped from hass.data; what is
\* suspended on the device is left as it is (when the platforms do not
\* unload, nothing changes)
UnloadEntry ==
    /\ phase = "running"
    /\ pending = <<>>
    /\ phase' = "unloaded"
    /\ requested' = FALSE
    /\ UNCHANGED <<instance, has_data, device_labels, device_locked, api_data, api_locked, coord_data, coord_locked,
                   last_update_success, inflight, port_data, port_locked, pending, names, entries, ha_state,
                   fetches, label_changes, verVars, io, ended, io_started>>

IoNext ==
    \/ RefreshStart /\ UNCHANGED <<migVars, entryVars, handlerVars>>
    \/ RefreshSucceeds /\ UNCHANGED <<migVars, entryVars, handlerVars>>
    \/ RefreshFails /\ UNCHANGED <<migVars, entryVars, handlerVars>>
    \/ HandleCoordinatorUpdate /\ UNCHANGED <<migVars, entryVars, handlerVars>>
    \/ AsyncUpdateStart /\ UNCHANGED <<migVars, entryVars, handlerVars>>
    \/ AsyncUpdateEnd /\ UNCHANGED <<migVars, entryVars, handlerVars>>
    \/ CommandStart /\ UNCHANGED <<migVars, entryVars, handlerVars>>
    \/ CommandEnd /\ UNCHANGED <<migVars, entryVars, handlerVars>>
    \/ UnloadEntry /\ UNCHANGED <<migVars, entryVars, handlerVars>>

IoSpec == IoInit /\ [][IoNext]_vars

(***************************************************************************)
(* Part 4: config entry migration and config flow                          *)
(***************************************************************************)
\* __init__.CONFIG_VERSION = Version(1, 2)
CONFIG_VERSION == <<1, 2>>

\* Version is a NamedTuple: versions compare as pairs
VersionLess(a, b) == a[1] < b[1] \/ (a[1] = b[1] /\ a[2] < b[2])

\* api.create_title
create_title(host) == "Ubiquiti mFi mPower [" \o host \o "]"

\* a host and credentials as the forms collect them
UserInputs == [host : {Host, "10.0.0.6"}, credentials : {"ubnt", "secret"}]
\* the step is called without user input, to show the form
NoInput == [host |-> "", credentials |-> ""]

\* how the device meets the attempt: the device object cannot be
\* constructed, connect raises MPowerConnectionError,
\* MPowerAuthenticationError or another exception, or connect returns
DeviceBehaviours ==
    {"construct_error", "connection_error", "auth_error", "other_error", "connected"}
Failures == DeviceBehaviours \ {"connected"}

\* no error (None)
NoError == ""

\* an authentication error is reported like a connection error
create_device_for_flow_AuthAsConnect(device) ==
    CASE device = "construct_error" -> [api_device |-> FALSE, error |-> "input_error"]
      [] device = "connection_error" -> [api_device |-> FALSE, error |-> "cannot_connect"]
      [] device = "auth_error" -> [api_device |-> FALSE, error |-> "cannot_connect"]
      [] device = "other_error" -> [api_device |-> FALSE, error |-> "unknown"]
      [] OTHER -> [api_device |-> TRUE, error |-> "debug"]

\* api.create_device_for_flow: the device (or None) and the error; after a
\* connection without exception the error returned is "debug"
create_device_for_flow(device) ==
    CASE device = "construct_error" -> [api_device |-> FALSE, error |-> "input_error"]
      [] device = "connection_error" -> [api_device |-> FALSE, error |-> "cannot_connect"]
      [] device = "auth_error" -> [api_device |-> FALSE, error |-> "invalid_auth"]
      [] device = "other_error" -> [api_device |-> FALSE, error |-> "unknown"]
      [] OTHER -> [api_device |-> TRUE, error |-> "debug"]

\* the config entries a stored configuration can hold: none, or one entry of
\* an older, the current or a newer version; an entry of the current
\* version has the MAC as unique ID and no SSL keys
StoredEntries ==
    {e \in [version : {<<1, 1>>, <<1, 2>>, <<1, 3>>, <<2, 1>>},
            unique_id : {NoKey, Mac},
            title : {create_title(Host)},
            data : [host : {Host}, credentials : {"ubnt"}, ssl : BOOLEAN],
            options : [ssl : BOOLEAN]] :
        e.version = CONFIG_VERSION =>
            (e.unique_id = Mac /\ ~e.data.ssl /\ ~e.options.ssl)}

EntryInit ==
    /\ CoordIdle
    /\ device_labels = <<>>
    /\ device_locked = <<>>
    /\ ports = 1
    /\ entity_registry = <<>>
    /\ device_registry = {}
    /\ run = 1
    /\ pc = "done"
    /\ idx = 1
    /\ log = <<>>
    /\ first_run = [reg |-> <<>>, devs |-> {}]
    /\ registry0 = [reg |-> <<>>, devs |-> {}]
    /\ config_entries \in {{}} \cup {{e} : e \in StoredEntries}
    /\ outcome = NoOutcome
    /\ reload_scheduled = FALSE
    /\ HandlerIdle

\* async_migrate_entry, line 116: create_device is a coroutine function and
\* is called without await, so api_device is a coroutine object
MigrationDevice == "coroutine"

\* async_migrate_entry, line 117: await api_device.refresh()
MigrationRefresh(api_device, reachable) ==
    IF api_device = "coroutine" THEN "AttributeError"
    ELSE IF reachable THEN "ok" ELSE "MPowerConnectionError"

\* the entry is cleaned and stamped before the device is asked, so a failure
\* leaves a modified entry behind
async_migrate_entry_WritesFirst(e, reachable) ==
    IF VersionLess(CONFIG_VERSION, e.version)
    THEN [ok |-> FALSE, entry |-> [e EXCEPT !.version = CONFIG_VERSION]]
    ELSE IF VersionLess(e.version, <<1, 2>>)
    THEN IF MigrationRefresh(MigrationDevice, reachable) # "ok"
         THEN [ok |-> FALSE,
               entry |-> [e EXCEPT !.data.ssl = FALSE, !.options.ssl = FALSE]]
         ELSE [ok |-> TRUE,
               entry |-> [e EXCEPT !.version = CONFIG_VERSION,
                                   !.unique_id = Mac,
                                   !.data.ssl = FALSE,
                                   !.options.ssl = FALSE]]
    ELSE [ok |-> TRUE, entry |-> [e EXCEPT !.version = CONFIG_VERSION]]

\* async_migrate_entry: the value returned and the entry afterwards
async_migrate_entry(e, reachable) ==
    IF VersionLess(CONFIG_VERSION, e.version)
    THEN [ok |-> FALSE, entry |-> e]
    ELSE IF VersionLess(e.version, <<1, 2>>)
    THEN IF MigrationRefresh(MigrationDevice, reachable) # "ok"
         THEN [ok |-> FALSE, entry |-> e]
         ELSE [ok |-> TRUE,
               entry |-> [e EXCEPT !.version = CONFIG_VERSION,
                                   !.unique_id = Mac,
                                   !.data.ssl = FALSE,
                                   !.options.ssl = FALSE]]
    ELSE [ok |-> TRUE, entry |-> [e EXCEPT !.version = CONFIG_VERSION]]

\* the host calls async_migrate_entry for an entry whose version is not the
\* current one
MigrateConfigEntry ==
    /\ \E e \in config_entries, reachable \in BOOLEAN :
          /\ e.version # CONFIG_VERSION
          /\ LET r == async_migrate_entry(e, reachable)
             IN  /\ config_entries' = (config_entries \ {e}) \cup {r.entry}
                 /\ outcome' = [op |-> "migrate", version |-> e.version,
                                submitted |-> FALSE,
                                device |-> IF reachable THEN "connected"
                                           ELSE "connection_error",
                                has_data |-> reachable,
                                type |-> IF r.ok THEN "ok" ELSE "failed",
                                error |-> NoError]
    /\ UNCHANGED reload_scheduled

\* the result of a flow step
FlowOutcome(op, input, device, hd, type, error) ==
    [op |-> op, version |-> <<0, 0>>, submitted |-> input # NoInput, device |-> device,
     has_data |-> hd, type |-> type, error |-> error]

\* MPowerConfigFlow.async_step_user
async_step_user ==
    \E input \in UserInputs \cup {NoInput}, device \in DeviceBehaviours, hd \in BOOLEAN :
       LET r == create_device_for_flow(device)
           error == IF input = NoInput THEN NoError
                    ELSE IF r.error = NoError /\ ~(r.api_device /\ hd) THEN "unknown"
                    ELSE r.error
           configured == {e \in config_entries : e.unique_id = Mac}
       IN  IF input # NoInput /\ r.error = NoError /\ r.api_device /\ hd
           THEN IF configured # {}
                THEN /\ config_entries' =
                          {IF e \in configured THEN [e EXCEPT !.data.host = input.host]
                           ELSE e : e \in config_entries}
                     /\ reload_scheduled' =
                          (reload_scheduled \/ config_entries' # config_entries)
                     /\ outcome' = FlowOutcome("user", input, device, hd, "abort",
                                               "already_configured")
                ELSE /\ config_entries' = config_entries \cup
                          {[version |-> CONFIG_VERSION, unique_id |-> Mac,
                            title |-> create_title(input.host),
                            data |-> [host |-> input.host,
                                      credentials |-> input.credentials, ssl |-> FALSE],
                            options |-> [ssl |-> FALSE]]}
                     /\ outcome' = FlowOutcome("user", input, device, hd, "create_entry",
                                               NoError)
                     /\ UNCHANGED reload_scheduled
           ELSE /\ outcome' = FlowOutcome("user", input, device, hd, "form", error)
                /\ UNCHANGED <<config_entries, reload_scheduled>>

\* MPowerConfigFlow.async_step_reconfigure
async_step_reconfigure ==
    \E config_entry \in config_entries, input \in UserInputs \cup {NoInput},
       device \in DeviceBehaviours, hd \in BOOLEAN :
       LET r == create_device_for_flow(device)
           error == IF input = NoInput THEN NoError
                    ELSE IF r.error = NoError /\ ~(r.api_device /\ hd) THEN "unknown"
                    ELSE r.error
       IN  IF input # NoInput /\ r.error = NoError /\ r.api_device /\ hd
           THEN IF config_entry.unique_id # Mac
                THEN /\ outcome' = FlowOutcome("reconfigure", input, device, hd, "abort",
                                               "unique_id_mismatch")
                     /\ UNCHANGED <<config_entries, reload_scheduled>>
                ELSE /\ config_entries' = (config_entries \ {config_entry}) \cup
                          {[config_entry EXCEPT !.data.host = input.host,
                                                !.data.credentials = input.credentials]}
                     /\ reload_scheduled' = TRUE
                     /\ outcome' = FlowOutcome("reconfigure", input, device, hd, "abort",
                                               "reconfigure_successful")
           ELSE /\ outcome' = FlowOutcome("reconfigure", input, device, hd, "form", error)
                /\ UNCHANGED <<config_entries, reload_scheduled>>

\* MPowerConfigFlow.async_step_reauth_confirm; its form collects the
\* credentials only
async_step_reauth_confirm ==
    \E config_entry \in config_entries, input \in UserInputs \cup {NoInput},
       device \in DeviceBehaviours, hd \in BOOLEAN :
       LET r == create_device_for_flow(device)
           error == IF input = NoInput THEN NoError ELSE r.error
       IN  IF input # NoInput /\ error = NoError
           THEN /\ config_entries' = (config_entries \ {config_entry}) \cup
                     {[config_entry EXCEPT !.data.credentials = input.credentials]}
                /\ reload_scheduled' = TRUE
                /\ outcome' = FlowOutcome("reauth_confirm", input, device, hd, "abort",
                                          "reauth_successful")
           ELSE /\ outcome' = FlowOutcome("reauth_confirm", input, device, hd, "form",
                                          error)
                /\ UNCHANGED <<config_entries, reload_scheduled>>

EntryNext ==
    \/ MigrateConfigEntry /\ UNCHANGED <<migVars, coordVars, handlerVars>>
    \/ async_step_user /\ UNCHANGED <<migVars, coordVars, handlerVars>>
    \/ async_step_reconfigure /\ UNCHANGED <<migVars, coordVars, handlerVars>>
    \/ async_step_reauth_confirm /\ UNCHANGED <<migVars, coordVars, handlerVars>>

EntrySpec == EntryInit /\ [][EntryNext]_vars

(***************************************************************************)
(* Part 5: removal of a device from the config entry                       *)
(***************************************************************************)
\* removal is allowed for every device
async_remove_config_entry_device_Always(reg, device_entry_id) == TRUE

\* __init__.async_remove_config_entry_device: True when no entry of the
\* entity registry has the device's id
async_remove_config_entry_device(reg, device_entry_id) ==
    device_entry_id \notin {reg[id].device_id : id \in DOMAIN reg}

\* the registries at the time of the request: the hub device, some
\* devices of ports, and entities with or without a device
RemoveInit ==
    /\ CoordIdle
    /\ device_labels = <<>>
    /\ device_locked = <<>>
    /\ ports \in 1..MaxPorts
    /\ \E D \in SUBSET {OldDevice[p] : p \in 1..ports} :
          device_registry = D \cup {HubDevice}
    /\ \E S \in SUBSET {u \in 1..Len(EntryUniverse) : EntryUniverse[u].port <= ports} :
          /\ Cardinality(S) <= MaxEntries
          /\ \E Q \in SUBSET {p \in 1..ports : OldDevice[p] \in device_registry /\
                                   \E id \in S : EntryUniverse[id].port = p} :
                entity_registry =
                    [id \in S |->
                        [domain |-> EntryUniverse[id].domain,
                         unique_id |-> EntryUniverse[id].unique_id,
                         device_id |-> IF EntryUniverse[id].port \in Q
                                       THEN OldDevice[EntryUniverse[id].port]
                                       ELSE NoDevice]]
    /\ run = 1
    /\ pc = "done"
    /\ idx = 1
    /\ log = <<>>
    /\ first_run = [reg |-> <<>>, devs |-> {}]
    /\ registry0 = [reg |-> entity_registry, devs |-> device_registry]
    /\ config_entries = {}
    /\ outcome = NoOutcome
    /\ reload_scheduled = FALSE
    /\ HandlerIdle

\* the host asks whether a device of the device registry may be removed
\* from the config entry
RemoveConfigEntryDevice ==
    /\ \E device_entry \in device_registry :
          outcome' = [op |-> "remove_device", version |-> <<0, 0>>, submitted |-> FALSE,
                      device |-> device_entry, has_data |-> FALSE,
                      type |-> IF async_remove_config_entry_device(entity_registry,
                                                                   device_entry)
                               THEN "allowed" ELSE "refused",
                      error |-> ""]
    /\ UNCHANGED <<config_entries, reload_scheduled>>

RemoveNext == RemoveConfigEntryDevice /\ UNCHANGED <<migVars, coordVars, handlerVars>>

RemoveSpec == RemoveInit /\ [][RemoveNext]_vars

(***************************************************************************)
(* Part 6: update_device and its UpdateHandler                             *)
(***************************************************************************)
\* the callers whose calls of update_device may overlap (the coordinators
\* of several config entries)
Callers == 1..MaxCalls

\* how api_device.refresh ends: it returns, it raises MPowerConnectionError
\* out of a BrokenPipeError, another MPowerConnectionError or another
\* exception, or the task is cancelled (the timeout of _async_update_data)
RefreshOutcomes == {"ok", "broken_pipe", "connection", "other", "cancelled"}

\* what `except Exception' catches
Exceptions == {"broken_pipe", "connection", "other"}

\* a caller that is not inside update_device
NoHandler == [pc |-> "idle", _debug |-> FALSE, attempts |-> 0, exc |-> "", result |-> ""]

\* every MPowerConnectionError is retried
handle_AnyConnectionError(exc, debug) ==
    IF exc \in {"broken_pipe", "connection"}
    THEN [retry |-> TRUE, loop_debug |-> FALSE]
    ELSE [retry |-> FALSE, loop_debug |-> debug]

\* UpdateHandler.handle: returns (the loop of update_device goes on) after
\* it disabled the debug mode, or raises the exception again
handle(exc, debug) ==
    IF exc = "broken_pipe" /\ debug
    THEN [retry |-> TRUE, loop_debug |-> FALSE]
    ELSE [retry |-> FALSE, loop_debug |-> debug]

\* UpdateHandler.__aexit__: the counter is decremented; the handler that
\* brings it to zero sets the debug mode back to the value it saw when it
\* was created
__aexit__(h, cnt, debug) ==
    [counter |-> cnt - 1,
     loop_debug |-> IF cnt - 1 = 0 /\ debug # h._debug THEN h._debug ELSE debug]

HandlerInit ==
    /\ CoordIdle
    /\ EntryIdle
    /\ device_labels = <<>>
    /\ device_locked = <<>>
    /\ ports = 1
    /\ entity_registry = <<>>
    /\ device_registry = {}
    /\ run = 1
    /\ pc = "done"
    /\ idx = 1
    /\ log = <<>>
    /\ first_run = [reg |-> <<>>, devs |-> {}]
    /\ registry0 = [reg |-> <<>>, devs |-> {}]
    /\ loop_debug \in BOOLEAN
    /\ counter = 0
    /\ handlers = [c \in Callers |-> NoHandler]
    /\ debug_before = loop_debug

\* update_device up to the await of refresh: UpdateHandler() reads the debug
\* mode of the loop, __aenter__ increments the counter
EnterHandler ==
    \E c \in Callers :
       /\ handlers[c].pc = "idle"
       /\ handlers' = [handlers EXCEPT ![c] =
              [pc |-> "refresh", _debug |-> loop_debug, attempts |-> 1, exc |-> "",
               result |-> ""]]
       /\ counter' = counter + 1
       /\ debug_before' = IF counter = 0 THEN loop_debug ELSE debug_before
       /\ UNCHANGED loop_debug

\* refresh returned, or the task was cancelled while it awaited refresh:
\* update_device leaves the handler
RefreshLeaves ==
    \E c \in Callers, exc \in {"ok", "cancelled"} :
       /\ handlers[c].pc = "refresh"
       /\ LET x == __aexit__(handlers[c], counter, loop_debug)
          IN  /\ counter' = x.counter
              /\ loop_debug' = x.loop_debug
       /\ handlers' = [handlers EXCEPT ![c].pc = "idle", ![c].exc = exc,
                           ![c].result = IF exc = "ok" THEN "returned" ELSE "raised"]
       /\ UNCHANGED debug_before

\* refresh raised an exception: handle either lets the loop call refresh
\* again or raises, and then update_device leaves the handler
RefreshRaises ==
    \E c \in Callers, exc \in Exceptions :
       /\ handlers[c].pc = "refresh"
       /\ LET r == handle(exc, loop_debug)
          IN  IF r.retry
              THEN /\ handlers[c].attempts < MaxAttempts
                   /\ loop_debug' = r.loop_debug
                   /\ handlers' = [handlers EXCEPT ![c].attempts = @ + 1, ![c].exc = exc]
                   /\ UNCHANGED counter
              ELSE LET x == __aexit__(handlers[c], counter, r.loop_debug)
                   IN  /\ counter' = x.counter
                       /\ loop_debug' = x.loop_debug
                       /\ handlers' = [handlers EXCEPT ![c].pc = "idle", ![c].exc = exc,
                                           ![c].result = "raised"]
       /\ UNCHANGED debug_before

HandlerNext ==
    \/ EnterHandler /\ UNCHANGED <<migVars, coordVars, entryVars>>
    \/ RefreshLeaves /\ UNCHANGED <<migVars, coordVars, entryVars>>
    \/ RefreshRaises /\ UNCHANGED <<migVars, coordVars, entryVars>>

HandlerSpec == HandlerInit /\ [][HandlerNext]_vars

(***************************************************************************)
(* Properties of the identity migration (checked under MigSpec)            *)
(***************************************************************************)
\* the entity the next iteration processes
Processing == pc = "running" /\ idx <= 2 * ports
CurEntity == EntityTable[EntityList(ports)[IF idx <= 2 * ports THEN idx ELSE 1]]

\* the log records the step under consideration appends
NewRecords == (Len(log) + 1)..Len(log')

\* the result of the lookup under the entity's current unique ID
CurrentEntry(reg, e) == async_get_entity_id(reg, domain(e), e.unique_id)

\* the historical candidates of an entity that have a registry entry
Matches(reg, e) ==
    {j \in 1..Len(e.old_unique_ids) :
        async_get_entity_id(reg, domain(e), e.old_unique_ids[j]) # None}

FirstMatch(reg, e) == CHOOSE j \in Matches(reg, e) : \A l \in Matches(reg, e) : j <= l

\* no two entries of a domain carry the same unique ID
RegistryUnique(reg) ==
    \A a, b \in DOMAIN reg :
        (reg[a].domain = reg[b].domain /\ reg[a].unique_id = reg[b].unique_id) => a = b

\* C1: idempotence.  Running the migration a second time with nothing
\* changed in between mutates no registry: the registries during and after
\* the second run equal the registries as the first run left them.
C1_Idempotent ==
    run = 2 => (entity_registry = first_run.reg /\ device_registry = first_run.devs)

\* C2: no rename is ever issued whose target unique ID is, at the time of the
\* call, held by a registry entry of the same domain (an entry renamed earlier
\* in the same run included).
C2_NoRenameOntoHeldId ==
    \A k \in 1..Len(log) : log[k].op = "update_entity" => log[k].holder = None

\* C3: no merge.  When two or more registry entries resolve to the target
\* unique ID of the entity being processed (they carry its current or one of
\* its historical IDs), the iteration renames none of them and records a
\* conflict.
C3_NoMerge ==
    [][(Processing
        /\ Cardinality({id \in DOMAIN entity_registry :
              /\ entity_registry[id].domain = domain(CurEntity)
              /\ \/ entity_registry[id].unique_id = CurEntity.unique_id
                 \/ \E j \in 1..Len(CurEntity.old_unique_ids) :
                       entity_registry[id].unique_id = CurEntity.old_unique_ids[j]}) >= 2)
       => (/\ entity_registry' = entity_registry
           /\ \E k \in NewRecords : log'[k].op = "error")]_vars

\* C4: precedence.  When no entry exists under the entity's current unique ID,
\* the first candidate of old_unique_ids that has a registry entry is renamed
\* to the current unique ID, and no rename is issued for any later candidate.
C4_FirstMatchOnly ==
    [][(Processing
        /\ CurrentEntry(entity_registry, CurEntity) = None
        /\ Matches(entity_registry, CurEntity) # {})
       => LET first == async_get_entity_id(entity_registry, domain(CurEntity),
                 CurEntity.old_unique_ids[FirstMatch(entity_registry, CurEntity)])
          IN  /\ entity_registry'[first].unique_id = CurEntity.unique_id
              /\ \A k \in NewRecords :
                    log'[k].op = "update_entity" => log'[k].entity_id = first]_vars

C6_ConflictSkipsEntityOnly ==
    [][(Processing
        /\ \/ /\ CurrentEntry(entity_registry, CurEntity) # None
              /\ Matches(entity_registry, CurEntity) # {}
           \/ /\ CurrentEntry(entity_registry, CurEntity) = None
              /\ Cardinality(Matches(entity_registry, CurEntity)) >= 2)
       => (/\ \E k \in NewRecords : log'[k].op = "error"
           /\ DOMAIN entity_registry' = DOMAIN entity_registry
           /\ RegistryUnique(entity_registry')
           /\ pc' = "running"
           /\ idx' = idx + 1)]_vars

\* C7: a device entry is removed only when no entity entry references it.
C7_OnlyUnreferencedRemoved ==
    \A k \in 1..Len(log) : log[k].op = "remove_device" => log[k].referenced_by = {}

\* the identifier of entity i of the list under the single-MAC scheme and
\* under the dual LAN/WLAN-MAC scheme, spelled out
SingleMacId ==
    [i \in 1..(2 * MaxPorts) |->
        IF i <= MaxPorts THEN "m1-" \o ToString(i) \o "-lock"
                         ELSE "m1-" \o ToString(i - MaxPorts)]
DualMacId ==
    [i \in 1..(2 * MaxPorts) |->
        IF i <= MaxPorts THEN "m1-m2-" \o ToString(i) \o "-lock"
                         ELSE "m1-m2-" \o ToString(i - MaxPorts)]

\* the entries of the switch domain that carry a unique ID
Holders(reg, uid) ==
    {id \in DOMAIN reg : reg[id].domain = SwitchDomain /\ reg[id].unique_id = uid}

\* the registry the upgrade from the dual-MAC scheme starts from: every entity
\* of the device has exactly one entry, the one under its old dual-MAC ID
C8_Pre ==
    \A n \in 1..(2 * ports) :
        LET i == EntityList(ports)[n]
        IN  /\ Cardinality(Holders(registry0.reg, DualMacId[i])) = 1
            /\ CurrentEntry(registry0.reg, EntityTable[i]) = None
            /\ Matches(registry0.reg, EntityTable[i]) = {1}

DisplayNameWritten(p) == names[p] = device_name(SwitchEntities[p], port_data[p])

\* the refreshes of a coordinator that precede fetch k
EarlierRefreshes(k) ==
    {j \in 1..(k - 1) : /\ fetches[j].instance = fetches[k].instance
                        /\ fetches[j].kind = "refresh"}

\* the fetches of the same device object that succeeded before fetch k
EarlierSuccesses(k) ==
    {j \in 1..(k - 1) : /\ fetches[j].instance = fetches[k].instance
                        /\ fetches[j].result = "ok"}

\* C9: across label changes and coordinator updates the unique ID of every
\* port entity stays the one built from MAC, port number and role tag, and
\* once the entities have handled an update the device registry holds the
\* display name of the port's label (the label if set, otherwise "Port N").
C9_UniqueIdStableNameFollowsLabel ==
    (phase = "running" /\ pending = <<>>) =>
        /\ \A i \in DOMAIN entries : entries[i].unique_id = unique_id(SwitchEntities[i])
        /\ \A q \in 1..NumPorts : DisplayNameWritten(q)

\* C10 (as stated): the first refresh of a coordinator uses the extended
\* timeout SLOW_SETUP_MAX_WAIT and every later refresh of that coordinator
\* uses DEFAULT_TIMEOUT, whatever the initial fetch of create_coordinator did.
C10_FirstRefreshExtended ==
    \A k \in DOMAIN fetches :
        fetches[k].kind = "refresh" =>
            fetches[k].timeout =
                IF EarlierRefreshes(k) = {} THEN SLOW_SETUP_MAX_WAIT ELSE DEFAULT_TIMEOUT

\* C10 (amended): a refresh uses the extended timeout SLOW_SETUP_MAX_WAIT
\* exactly when no fetch of the coordinator's device object (the initial
\* fetch of create_coordinator included) has succeeded before it, and
\* DEFAULT_TIMEOUT otherwise.
C10_ExtendedUntilFirstSuccess ==
    \A k \in DOMAIN fetches :
        fetches[k].kind = "refresh" =>
            fetches[k].timeout =
                IF EarlierSuccesses(k) = {} THEN SLOW_SETUP_MAX_WAIT ELSE DEFAULT_TIMEOUT

\* C10 witness: after a failed initial fetch a coordinator's first refresh
\* ran with the extended timeout and succeeded, and a later refresh of the
\* same coordinator ran with the standard timeout.
C10_Witness ==
    \E j, k \in DOMAIN fetches :
        /\ j < k
        /\ fetches[j].instance = fetches[k].instance
        /\ fetches[j].kind = "refresh"
        /\ fetches[j].timeout = SLOW_SETUP_MAX_WAIT
        /\ fetches[j].result = "ok"
        /\ fetches[k].kind = "refresh"
        /\ fetches[k].timeout = DEFAULT_TIMEOUT

\* the last fetch record, once a refresh has ended
LastFetch == fetches[Len(fetches)]

\* a refresh that was in flight ends in this step with a failure
RefreshEndsFailed == inflight /\ ~inflight' /\ LastFetch'.result # "ok"

\* C11: a refresh that fails with an authentication error ends with
\* ConfigEntryAuthFailed, and when the entry was set up the coordinator stays
\* in operation and the registered entities and devices stay as they are.
C11_AuthFailureSignalsReauth ==
    [][(RefreshEndsFailed /\ LastFetch'.cause = "auth") =>
          /\ LastFetch'.result = "ConfigEntryAuthFailed"
          /\ phase = "running" =>
                /\ phase' = "running"
                /\ instance' = instance
                /\ entries' = entries
                /\ names' = names
                /\ pending' \in {<<>>, AllListeners}]_vars

\* C11 witness: a coordinator in operation has ended a refresh with
\* ConfigEntryAuthFailed and its entities are registered.
C11_Witness ==
    /\ phase = "running"
    /\ ~inflight
    /\ fetches # <<>>
    /\ LastFetch.cause = "auth"
    /\ LastFetch.result = "ConfigEntryAuthFailed"
    /\ DOMAIN entries = 1..(2 * NumPorts)

\* C12 (as stated): a refresh that fails with anything but an authentication
\* error ends with UpdateFailed, and the coordinator's snapshot only changes
\* with a successful refresh.
C12_FailureIsUpdateFailed ==
    [][/\ (RefreshEndsFailed /\ LastFetch'.cause # "auth") =>
             LastFetch'.result = "UpdateFailed"
       /\ (coord_data' # coord_data /\ coord_data # NoData) =>
             (inflight /\ LastFetch'.result = "ok")]_vars

\* C12 (amended): a refresh whose timeout expired ends with
\* asyncio.TimeoutError, every other refresh that fails with anything but an
\* authentication error ends with UpdateFailed, and the coordinator's
\* snapshot only changes with a successful refresh.
C12_FailureKeepsSnapshot ==
    [][/\ (RefreshEndsFailed /\ LastFetch'.cause = "timeout") =>
             LastFetch'.result = "TimeoutError"
       /\ (RefreshEndsFailed /\ LastFetch'.cause \in {"connection", "data"}) =>
             LastFetch'.result = "UpdateFailed"
       /\ (coord_data' # coord_data /\ coord_data # NoData) =>
             (inflight /\ LastFetch'.result = "ok")]_vars

\* C12 witness: a coordinator that holds a snapshot has ended a refresh with
\* UpdateFailed, and its entities have handled the notification and hold
\* the data of the snapshot.
C12_Witness ==
    /\ phase = "running"
    /\ ~inflight
    /\ pending = <<>>
    /\ fetches # <<>>
    /\ LastFetch.result = "UpdateFailed"
    /\ coord_data # NoData
    /\ port_data = coord_data
    /\ port_data # device_labels

\* C13: whenever the entities can be read (the listeners of an update have
\* all been called), the data of every port object comes from the same
\* fetch as the data of the shared device object.
C13_OneSnapshot ==
    (phase = "running" /\ pending = <<>>) =>
        \A q \in 1..NumPorts : port_ver[q] = api_ver

\* the number of refreshes of the device that are in flight
RefreshesInFlight ==
    (IF inflight THEN 1 ELSE 0) + Cardinality(Suspended("update"))

\* C14: at most one refresh of the device is in flight at any time, whether
\* the coordinator or an entity's async_update started it.
C14_OneRefreshInFlight == RefreshesInFlight <= 1

\* a command that was suspended on its mutator ends in this step
CommandEnds == \E r \in Suspended("command") : io' = io \ {r}

\* C15: a command calls the mutator with refresh disabled and requests no
\* refresh while the mutator is suspended; when the mutator returns the
\* command requests exactly one coordinator refresh, and when the mutator
\* raises it requests none.
C15_CommandThenOneRefresh ==
    [][/\ \A r \in Suspended("command")' : ~r.refresh
       /\ (io' # io /\ ~CommandEnds) => requested' = requested
       /\ CommandEnds =>
             /\ ended'.kind = "command"
             /\ ended'.requests = (IF ended'.result = "ok" THEN 1 ELSE 0)
             /\ requested' = (requested \/ ended'.result = "ok")
             /\ inflight' = inflight
             /\ fetches' = fetches]_vars

\* C15 witness: a command has ended with a mutator that returned, one
\* refresh is requested from the coordinator and none has started since.
C15_Witness ==
    /\ ended.kind = "command"
    /\ ended.result = "ok"
    /\ ended.requests = 1
    /\ requested
    /\ ~inflight

\* C17: every fetch of the coordinator or of create_coordinator, and every
\* direct update and command of an entity, is suspended on the device under
\* a timeout.
C17_EverySuspensionBounded ==
    /\ \A k \in DOMAIN fetches : fetches[k].timeout # NoTimeout
    /\ \A r \in io : r.timeout # NoTimeout

\* C16: once async_unload_entry has returned, nothing of the entry is
\* suspended on the device any more (the session is released) and no
\* refresh of the device is in flight or starts.
C16_UnloadReleasesDevice ==
    phase = "unloaded" => (~inflight /\ io = {})

\* C18: a migration of an entry older than version 1.2 with a reachable
\* device returns success and leaves the entry at version 1.2, with the MAC
\* as unique ID and without the SSL keys in data and options.
C18_OldEntryMigrated ==
    (/\ outcome.op = "migrate"
     /\ VersionLess(outcome.version, <<1, 2>>)
     /\ outcome.device = "connected") =>
        /\ outcome.type = "ok"
        /\ \A e \in config_entries :
              /\ e.version = <<1, 2>>
              /\ e.unique_id = Mac
              /\ ~e.data.ssl
              /\ ~e.options.ssl

\* C19: a user step whose input passes validation (device constructed,
\* connected, with data) does not show the form again, and a config entry
\* with the MAC as unique ID exists afterwards.
C19_ValidInputCreatesEntry ==
    (/\ outcome.op = "user"
     /\ outcome.submitted
     /\ outcome.device = "connected"
     /\ outcome.has_data) =>
        /\ outcome.type # "form"
        /\ \E e \in config_entries : e.unique_id = Mac

\* the steps of the config flow that validate their input
FlowSteps == {"user", "reconfigure", "reauth_confirm"}

\* C20: a user, reconfigure or reauth step whose validation fails shows its
\* form again with the error of the failure (input_error, cannot_connect,
\* invalid_auth, unknown), and no config entry is created or modified and
\* no reload is scheduled.
C20_FailureShowsFormWithError ==
    [][(/\ outcome'.op \in FlowSteps
        /\ outcome'.submitted
        /\ outcome'.device \in Failures) =>
           /\ outcome'.type = "form"
           /\ outcome'.error =
                 (CASE outcome'.device = "construct_error" -> "input_error"
                    [] outcome'.device = "connection_error" -> "cannot_connect"
                    [] outcome'.device = "auth_error" -> "invalid_auth"
                    [] outcome'.device = "other_error" -> "unknown")
           /\ config_entries' = config_entries
           /\ reload_scheduled' = reload_scheduled]_vars

\* C20 witness: the reauth step was given credentials that the device
\* rejected and has shown its form again with invalid_auth; the entry is
\* there.
C20_Witness ==
    /\ outcome.op = "reauth_confirm"
    /\ outcome.submitted
    /\ outcome.device = "auth_error"
    /\ outcome.type = "form"
    /\ outcome.error = "invalid_auth"
    /\ config_entries # {}

\* C25: a migration of a config entry that fails returns False and leaves
\* the entry as it was (version, unique ID, title, data, options); the
\* migration fails when the stored version is newer than the current one,
\* and when the device cannot be refreshed during a migration from a
\* version below 1.2.
C25_FailedMigrationChangesNothing ==
    [][outcome'.op = "migrate" =>
          /\ outcome'.type = "failed" => config_entries' = config_entries
          /\ VersionLess(CONFIG_VERSION, outcome'.version) => outcome'.type = "failed"
          /\ (VersionLess(outcome'.version, <<1, 2>>)
                 /\ outcome'.device = "connection_error") =>
                outcome'.type = "failed"]_vars

\* C25 witness: the migration of an entry of version 2.1 has failed and the
\* entry, with its SSL keys, is still there at version 2.1.
C25_Witness ==
    /\ outcome.op = "migrate"
    /\ outcome.type = "failed"
    /\ outcome.version = <<2, 1>>
    /\ \E e \in config_entries : e.version = <<2, 1>> /\ e.data.ssl

\* C27: a reauthentication step whose re-entered credentials validate (the
\* device accepts them) aborts with reauth_successful, with the entry's
\* data holding these credentials and a reload scheduled; a step whose
\* validation reports a failure shows the form again, changes no entry and
\* schedules no reload.
C27_ReauthUpdatesAndReloads ==
    outcome.op = "reauth_confirm" /\ outcome.submitted =>
        IF outcome.device = "connected"
        THEN /\ outcome.type = "abort"
             /\ outcome.error = "reauth_successful"
             /\ reload_scheduled
        ELSE outcome.type = "form"

\* C26: the removal of a device from the config entry is allowed exactly
\* when no entry of the entity registry references the device, and refused
\* when at least one entity references it; the request changes no registry.
C26_OnlyOrphanedDevicesRemoved ==
    [][outcome'.op = "remove_device" =>
          /\ (outcome'.type = "allowed") <=>
                (ReferencedBy(entity_registry, outcome'.device) = {})
          /\ (outcome'.type = "refused") <=>
                (ReferencedBy(entity_registry, outcome'.device) # {})
          /\ entity_registry' = entity_registry
          /\ device_registry' = device_registry]_vars

\* C26 witness: the removal of a port's device that an entity references
\* was refused, in a registry that also holds the unreferenced hub device.
C26_Witness ==
    /\ outcome.op = "remove_device"
    /\ outcome.type = "refused"
    /\ outcome.device # HubDevice
    /\ ReferencedBy(entity_registry, outcome.device) # {}
    /\ ReferencedBy(entity_registry, HubDevice) = {}

\* a listener of the current update is called
HandlerRuns == pending # <<>> /\ pending' = Tail(pending)

\* the entity whose listener is called next
NextListener == SwitchEntities[Head(pending)]

C28_EntityIdFollowsLabelWithoutCollision ==
    [][(HandlerRuns /\ coord_data # NoData /\ coord_data[NextListener.port] # BadData) =>
          LET i == Head(pending)
              wanted == new_entity_id(NextListener, coord_data[NextListener.port])
          IN  /\ \/ entries'[i].object_id = wanted
                 \/ \E j \in DOMAIN entries \ {i} : entries[j].object_id = wanted
              /\ \A j, k \in DOMAIN entries' :
                    j # k => entries'[j].object_id # entries'[k].object_id
              /\ ha_state'[i] = State(NextListener, coord_locked[NextListener.port],
                                      last_update_success)]_vars

\* C28 witness: both ports are labelled "Router"; after the update the lock
\* switch of port 1 has the ID made from host, label and name, and the lock
\* switch of port 2, which wanted the same ID, has a generated one.
C28_Witness ==
    /\ phase = "running"
    /\ pending = <<>>
    /\ coord_data = <<"Router", "Router">>
    /\ entries[1].object_id = "10_0_0_5_router_lock"
    /\ entries[2].object_id = "switch_10_0_0_5_router_lock"

\* the outlet switches
Outlets == {i \in DOMAIN entries : SwitchEntities[i].cls = "outlet"}

\* what the property `available' of entity i returns in the current state
Reported(i) ==
    available(SwitchEntities[i], port_locked[SwitchEntities[i].port], last_update_success)

\* a command of the lock switch of a port returns from the mutator
LockCommandReturns ==
    \E r \in Suspended("command") :
       /\ io' = io \ {r}
       /\ SwitchEntities[r.entity].cls = "lock"
       /\ ended'.result = "ok"

C22_DebugModeRestored == counter = 0 => loop_debug = debug_before

\* the calls of update_device that are inside their handler
Active == {c \in Callers : handlers[c].pc = "refresh"}

\* C23: a call of update_device makes at most two attempts; a failed
\* attempt is followed by another one only when refresh raised
\* MPowerConnectionError out of BrokenPipeError while the debug mode was on,
\* and the debug mode is off afterwards; every other exception and every
\* exception of the second attempt leaves update_device as raised; the
\* counter is the number of calls inside their handler, so it goes down by
\* one when a call returns and when it raises.
C23_RetriesAtMostOnce ==
    [][/\ counter = Cardinality(Active)
       /\ \A c \in Callers :
             /\ handlers'[c].attempts <= 2
             /\ (c \in Active /\ handlers'[c] # handlers[c]) =>
                   IF handlers'[c].pc = "refresh"
                   THEN /\ handlers'[c].exc = "broken_pipe"
                        /\ loop_debug
                        /\ ~loop_debug'
                        /\ handlers[c].attempts = 1
                        /\ counter' = counter
                   ELSE /\ counter' = counter - 1
                        /\ handlers'[c].result =
                              IF handlers'[c].exc = "ok" THEN "returned" ELSE "raised"
                        /\ handlers'[c].exc = "broken_pipe" =>
                              (~loop_debug \/ handlers[c].attempts = 2)]_vars

\* C23 witness: a call has returned from its second attempt, after the
\* first one ended with the broken pipe while the debug mode was on; no call
\* is active and the debug mode is back on.
C23_Witness ==
    /\ counter = 0
    /\ loop_debug
    /\ \E c \in Callers :
          /\ handlers[c].pc = "idle"
          /\ handlers[c].attempts = 2
          /\ handlers[c].result = "returned"
          /\ handlers[c]._debug

\* create_coordinator makes its initial fetch
InitialFetchEnds ==
    /\ Len(fetches') = Len(fetches) + 1
    /\ LastFetch'.kind = "initial"

\* C24: the initial fetch of create_coordinator never ends the setup: its
\* failure is ignored. The first refresh of the coordinator follows exactly
\* when the device has no data after the initial fetch; after a successful
\* initial fetch the setup goes on to the platforms and no refresh is made
\* before they are set up.
C24_InitialFetchBestEffort ==
    [][/\ InitialFetchEnds =>
             /\ LastFetch'.result \in {"ok", "ignored"}
             /\ has_data' <=> LastFetch'.result = "ok"
             /\ phase' = IF has_data' THEN "platforms" ELSE "first_refresh"
             /\ ~inflight'
       /\ (phase = "first_refresh" /\ ~inflight /\ inflight') =>
             /\ ~has_data
             /\ LastFetch.kind = "initial"
             /\ LastFetch.result = "ignored"
       /\ (phase = "platforms" /\ LastFetch.kind = "initial") =>
             /\ LastFetch.result = "ok"
             /\ ~inflight'
             /\ fetches' = fetches]_vars

\* C24 witness: the initial fetch failed and was ignored, the first refresh
\* of the coordinator succeeded, and the platforms are about to be set up.
C24_Witness ==
    /\ phase = "platforms"
    /\ Len(fetches) = 2
    /\ fetches[1].kind = "initial"
    /\ fetches[1].result = "ignored"
    /\ fetches[2].kind = "refresh"
    /\ fetches[2].result = "ok"
    /\ has_data

====
